---- MODULE Spec2Model ----
(***************************************************************************)
(* A model of the two collections of the application: FlairCollection      *)
(* (the TagStore: named tags) and ProfileCollection (the ProfileStore:     *)
(* user profiles that reference tags and interests by name).               *)
(*                                                                         *)
(* A collection is the sequence of its documents in insertion order.  A    *)
(* JavaScript value that is undefined is the value Absent.  A call that    *)
(* throws yields a result whose err names the throw site; a call that      *)
(* returns yields err = "ok" and the returned value in ret.                *)
(***************************************************************************)
EXTENDS Naturals, Sequences, FiniteSets, TLC

VARIABLES flairs, profiles, last, pre, procs, overlap

vars == <<flairs, profiles, last, pre, procs, overlap>>

(***************************************************************************)
(* Values and bounds                                                       *)
(***************************************************************************)
Absent == "<undefined>"
NoRet == "<no value>"

\* longest array of names or ids passed to a call
MaxRefs == 2
\* most documents a collection holds
MaxDocs == 3

TagNames == {"AI", "SE", "ML"}
Descriptions == {"d1", "d2"}
Usernames == {"jdoe", "ann"}
InterestNames == {"AI"}
InterestKeys == {"AI", "Bogus"}

\* docIDs the storage engine hands out, in order
FlairIds == <<"F1", "F2", "F3", "F4", "F5">>
ProfileIds == <<"P1", "P2", "P3", "P4", "P5">>

SeqsUpTo(S, n) == UNION {[1..k -> S] : k \in 0..n}

IsString(v) == v # Absent

\* The arguments of a call are a record of the parameters (or properties) the
\* caller supplied; one left out is undefined.
NoArgs == <<>>
Has(argv, p) == p \in DOMAIN argv
Arg(argv, p) == IF Has(argv, p) THEN argv[p] ELSE Absent

(***************************************************************************)
(* The base collection: find, findDoc, assertDefined, insert               *)
(***************************************************************************)
\* this.find({ field: value }).count()
Count(coll, field, value) == Cardinality({i \in 1..Len(coll) : coll[i][field] = value})

\* the position of the document findDoc(key) returns, 0 when it throws:
\* key is matched against the docID, then the name, then the username
Min(S) == CHOOSE x \in S : \A y \in S : x <= y
PosWhere(coll, field, key) ==
  LET hits == {i \in 1..Len(coll) : field \in DOMAIN coll[i] /\ coll[i][field] = key}
  IN IF hits = {} THEN 0 ELSE Min(hits)
FindDocPos(coll, key) ==
  IF PosWhere(coll, "_id", key) # 0 THEN PosWhere(coll, "_id", key)
  ELSE IF PosWhere(coll, "name", key) # 0 THEN PosWhere(coll, "name", key)
  ELSE PosWhere(coll, "username", key)

\* assertDefined(id) passes
IsDefined(coll, id) == PosWhere(coll, "_id", id) # 0

\* this._collection.insert(doc): the document gets the next docID
Insert(coll, ids, doc) ==
  LET id == ids[Len(coll) + 1]
  IN [coll |-> Append(coll, [x \in DOMAIN doc \cup {"_id"} |->
                               IF x = "_id" THEN id ELSE doc[x]]),
      id |-> id]

Ok(v) == [err |-> "ok", ret |-> v]
Throw(e) == [err |-> e, ret |-> NoRet]

(***************************************************************************)
(* FlairCollection                                                         *)
(***************************************************************************)
\* (a variant: the count compared with 1)
FlairNameExistsOffByOne(coll, name) == Count(coll, "name", name) > 1

\* this.find({ name }).count() > 0
FlairNameExists(coll, name) == Count(coll, "name", name) > 0

\* define({ name, description }): the result and the collection afterwards
FlairDefine(coll, args) ==
  LET name == Arg(args, "name")
      description == Arg(args, "description")
  IN
  IF ~IsString(name) THEN [res |-> Throw("Match.Error"), coll |-> coll]
  ELSE IF ~IsString(description) THEN [res |-> Throw("Match.Error"), coll |-> coll]
  ELSE IF FlairNameExists(coll, name)
    THEN [res |-> Throw("previously defined"), coll |-> coll]
  ELSE LET ins == Insert(coll, FlairIds, [name |-> name, description |-> description])
       IN [res |-> Ok(ins.id), coll |-> ins.coll]

FlairFindName(coll, interestID) ==
  IF ~IsDefined(coll, interestID) THEN Throw("not defined")
  ELSE IF FindDocPos(coll, interestID) = 0 THEN Throw("not defined")
  ELSE Ok(coll[FindDocPos(coll, interestID)].name)

\* xs.map(f) where f may throw: the first throw ends the call
MapResults(rs) ==
  LET bad == {i \in 1..Len(rs) : rs[i].err # "ok"}
  IN IF bad = {} THEN Ok([i \in 1..Len(rs) |-> rs[i].ret])
     ELSE Throw(rs[Min(bad)].err)

FlairFindNames(coll, argv) ==
  IF ~Has(argv, "interestIDs") THEN Throw("TypeError")
  ELSE LET interestIDs == argv.interestIDs
       IN MapResults([i \in 1..Len(interestIDs) |-> FlairFindName(coll, interestIDs[i])])

FlairAssertName(coll, name) ==
  IF FindDocPos(coll, name) = 0 THEN Throw("not defined") ELSE Ok(NoRet)

\* _.each(names, ...): nothing is visited when names is undefined
FlairAssertNames(coll, argv) ==
  IF ~Has(argv, "names") THEN Ok(NoRet)
  ELSE LET names == argv.names
           r == MapResults([i \in 1..Len(names) |-> FlairAssertName(coll, names[i])])
       IN IF r.err = "ok" THEN Ok(NoRet) ELSE r

FlairFindID(coll, name) ==
  IF FindDocPos(coll, name) = 0 THEN Throw("not defined")
  ELSE Ok(coll[FindDocPos(coll, name)]._id)

\* (a variant: no test for names being passed at all)
FlairFindIDsNoGuard(coll, argv) ==
  IF ~Has(argv, "names") THEN Throw("TypeError")
  ELSE LET names == argv.names
       IN MapResults([i \in 1..Len(names) |-> FlairFindID(coll, names[i])])

FlairFindIDs(coll, argv) ==
  IF ~Has(argv, "names") THEN Ok(<<>>)
  ELSE LET names == argv.names
       IN MapResults([i \in 1..Len(names) |-> FlairFindID(coll, names[i])])

\* (a variant: the description taken from the wrong property)
FlairDumpOneWrongField(coll, docID) ==
  IF FindDocPos(coll, docID) = 0 THEN Throw("not defined")
  ELSE LET doc == coll[FindDocPos(coll, docID)]
       IN Ok([name |-> doc.name, description |-> doc.name])

FlairDumpOne(coll, docID) ==
  IF FindDocPos(coll, docID) = 0 THEN Throw("not defined")
  ELSE LET doc == coll[FindDocPos(coll, docID)]
       IN Ok([name |-> doc.name, description |-> doc.description])

(***************************************************************************)
(* InterestCollection (a collaborator): Interests.assertNames              *)
(***************************************************************************)
InterestsAssertNames(names) ==
  IF \A i \in 1..Len(names) : names[i] \in InterestNames
  THEN Ok(NoRet) ELSE Throw("not defined")

(***************************************************************************)
(* ProfileCollection                                                       *)
(***************************************************************************)
ScalarFields == {"firstName", "lastName", "bio", "picture", "title",
                 "github", "facebook", "instagram"}
ProfileFields == ScalarFields \cup {"username", "interests", "flairs"}

\* the destructuring defaults of define's parameter
ProfileDefault(field) ==
  IF field = "username" THEN Absent
  ELSE IF field \in {"interests", "flairs"} THEN <<>>
  ELSE ""
\* (a variant: username given the default '' like its neighbours)
WithDefaultsUsername(args) ==
  [f \in ProfileFields |-> IF Has(args, f) THEN args[f]
                           ELSE IF f = "username" THEN "" ELSE ProfileDefault(f)]

WithDefaults(args) ==
  [f \in ProfileFields |-> IF Has(args, f) THEN args[f] ELSE ProfileDefault(f)]

\* check({ firstName, lastName, username, bio, picture, title }, checkPattern)
CheckPattern == {"firstName", "lastName", "username", "bio", "picture", "title"}
ProfileCheck(a) == \A f \in CheckPattern : IsString(a[f])

\* (a variant: the count compared with 1)
UsernameExistsOffByOne(coll, username) == Count(coll, "username", username) > 1

\* this.find({ username }).count() > 0
UsernameExists(coll, username) == Count(coll, "username", username) > 0

\* _.uniq(xs): the first occurrence of each element, in order
RECURSIVE Uniq(_)
Uniq(xs) ==
  IF xs = <<>> THEN <<>>
  ELSE LET front == Uniq(SubSeq(xs, 1, Len(xs) - 1))
           x == xs[Len(xs)]
       IN IF \E i \in 1..Len(front) : front[i] = x THEN front ELSE Append(front, x)
HasDuplicates(xs) == Len(xs) # Len(Uniq(xs))

\* (a variant: the flairs validated before the interests)
ProfileDefineFlairsFirst(coll, tags, args) ==
  LET a == WithDefaults(args)
      fail(e) == [res |-> Throw(e), coll |-> coll]
  IN IF ~ProfileCheck(a) THEN fail("Match.Error")
     ELSE IF UsernameExists(coll, a.username) THEN fail("previously defined")
     ELSE IF FlairAssertNames(tags, [names |-> a.flairs]).err # "ok"
       THEN fail("flair not defined")
     ELSE IF HasDuplicates(a.flairs) THEN fail("flairs contains duplicates")
     ELSE IF InterestsAssertNames(a.interests).err # "ok" THEN fail("interest not defined")
     ELSE IF HasDuplicates(a.interests) THEN fail("interests contains duplicates")
     ELSE LET ins == Insert(coll, ProfileIds, a)
          IN [res |-> Ok(ins.id), coll |-> ins.coll]

\* (a variant: the insert moved ahead of the flair checks)
ProfileDefineInsertEarly(coll, tags, args) ==
  LET a == WithDefaults(args)
      fail(e) == [res |-> Throw(e), coll |-> coll]
      ins == Insert(coll, ProfileIds, a)
  IN IF ~ProfileCheck(a) THEN fail("Match.Error")
     ELSE IF UsernameExists(coll, a.username) THEN fail("previously defined")
     ELSE IF InterestsAssertNames(a.interests).err # "ok" THEN fail("interest not defined")
     ELSE IF HasDuplicates(a.interests) THEN fail("interests contains duplicates")
     ELSE IF FlairAssertNames(tags, [names |-> a.flairs]).err # "ok"
       THEN [res |-> Throw("flair not defined"), coll |-> ins.coll]
     ELSE IF HasDuplicates(a.flairs)
       THEN [res |-> Throw("flairs contains duplicates"), coll |-> ins.coll]
     ELSE [res |-> Ok(ins.id), coll |-> ins.coll]

\* define({...}): the result and the collection afterwards
ProfileDefine(coll, tags, args) ==
  LET a == WithDefaults(args)
      fail(e) == [res |-> Throw(e), coll |-> coll]
  IN IF ~ProfileCheck(a) THEN fail("Match.Error")
     ELSE IF UsernameExists(coll, a.username) THEN fail("previously defined")
     ELSE IF InterestsAssertNames(a.interests).err # "ok" THEN fail("interest not defined")
     ELSE IF HasDuplicates(a.interests) THEN fail("interests contains duplicates")
     ELSE IF FlairAssertNames(tags, [names |-> a.flairs]).err # "ok"
       THEN fail("flair not defined")
     ELSE IF HasDuplicates(a.flairs) THEN fail("flairs contains duplicates")
     ELSE LET ins == Insert(coll, ProfileIds, a)
          IN [res |-> Ok(ins.id), coll |-> ins.coll]

ProfileDumpOne(coll, docID) ==
  IF FindDocPos(coll, docID) = 0 THEN Throw("not defined")
  ELSE LET doc == coll[FindDocPos(coll, docID)]
       IN Ok([f \in ProfileFields |-> doc[f]])

(***************************************************************************)
(* The calls a client makes, one at a time                                 *)
(***************************************************************************)
OptArg(p, S) == {NoArgs} \cup {p :> v : v \in S}

FlairInputs(names) == {n @@ d : n \in OptArg("name", names),
                                d \in OptArg("description", Descriptions)}

ScalarValue(f) == IF f \in {"picture", "github", "facebook", "instagram"}
                  THEN "http://x.org" ELSE "text"
\* the optional strings a caller leaves out: none, one of them, or all
LeftOut == {{}, ScalarFields} \cup {{f} : f \in ScalarFields}
ScalarInputs == {[f \in ScalarFields \ out |-> ScalarValue(f)] : out \in LeftOut}

\* what a caller passes where a tag name is expected: a name or a docID
ProfileKeys == {"AI", FlairIds[1]}
RefInputs ==
  {u @@ i @@ f : u \in OptArg("username", Usernames),
                 i \in OptArg("interests", SeqsUpTo(InterestKeys, MaxRefs)),
                 f \in OptArg("flairs", SeqsUpTo(ProfileKeys, MaxRefs))}
DefaultInputs ==
  {u @@ sc @@ i @@ f : u \in OptArg("username", Usernames), sc \in ScalarInputs,
                       i \in OptArg("interests", {<<"AI">>}),
                       f \in OptArg("flairs", {<<>>})}

Procs == {1, 2}
\* a server-side caller: where it is in the define it runs, and how many it ran
Idle(n) == [pc |-> "idle", kind |-> "none", args |-> NoArgs, res |-> Ok(NoRet),
            calls |-> n]
NoCall == [op |-> "none", args |-> NoArgs, res |-> Ok(NoRet)]
Stores == [flairs |-> flairs, profiles |-> profiles]

Init ==
  /\ flairs = <<>>
  /\ profiles = <<>>
  /\ last = NoCall
  /\ pre = [flairs |-> <<>>, profiles |-> <<>>]
  /\ procs = [p \in Procs |-> Idle(0)]
  /\ overlap = {}

\* A call runs to its end in one step: last records the call and its outcome,
\* pre the collections as they were when it began.
Called(op, args, res) ==
  /\ last = NoCall
  /\ last' = [op |-> op, args |-> args, res |-> res]
  /\ pre' = Stores
  /\ UNCHANGED <<procs, overlap>>

\* a call that returns or throws without writing to either collection
Lookup(op, args, res) ==
  /\ Called(op, args, res)
  /\ UNCHANGED <<flairs, profiles>>

\* the caller has taken the value or caught the error
Return ==
  /\ last # NoCall
  /\ last' = NoCall
  /\ pre' = Stores
  /\ UNCHANGED <<flairs, profiles, procs, overlap>>

DoFlairDefine(inputs) ==
  \E args \in inputs :
    LET r == FlairDefine(flairs, args)
    IN /\ Called("Flairs.define", args, r.res)
       /\ Len(r.coll) <= MaxDocs
       /\ flairs' = r.coll
       /\ UNCHANGED profiles

DoProfileDefine(inputs) ==
  \E args \in inputs :
    LET r == ProfileDefine(profiles, flairs, args)
    IN /\ Called("Profiles.define", args, r.res)
       /\ Len(r.coll) <= MaxDocs
       /\ profiles' = r.coll
       /\ UNCHANGED flairs

DoFindName(keys) ==
  \E k \in keys :
    Lookup("findName", [interestID |-> k], FlairFindName(flairs, k))

DoFindNames(keys) ==
  \E a \in OptArg("interestIDs", SeqsUpTo(keys, MaxRefs)) :
    Lookup("findNames", a, FlairFindNames(flairs, a))

DoAssertName(keys) ==
  \E k \in keys :
    Lookup("assertName", [name |-> k], FlairAssertName(flairs, k))

DoAssertNames(keys) ==
  \E a \in OptArg("names", SeqsUpTo(keys, MaxRefs)) :
    Lookup("assertNames", a, FlairAssertNames(flairs, a))

DoFindID(keys) ==
  \E k \in keys :
    Lookup("findID", [name |-> k], FlairFindID(flairs, k))

DoFindIDs(keys) ==
  \E a \in OptArg("names", SeqsUpTo(keys, MaxRefs)) :
    Lookup("findIDs", a, FlairFindIDs(flairs, a))

DoDumpOne(keys) ==
  \E k \in keys :
    Lookup("dumpOne", [docID |-> k], FlairDumpOne(flairs, k))

DoProfileDumpOne ==
  \E k \in {ProfileIds[1], ProfileIds[2]} :
    Lookup("Profiles.dumpOne", [docID |-> k], ProfileDumpOne(profiles, k))

\* dumpOne(docID), the name replaced, given back to define
DoRoundTrip(keys, names) ==
  \E k \in keys, n \in names :
    LET d == FlairDumpOne(flairs, k)
        r == IF d.err # "ok" THEN [res |-> d, coll |-> flairs]
             ELSE FlairDefine(flairs, [name |-> n, description |-> d.ret.description])
    IN /\ Called("dumpOne/define", [docID |-> k, name |-> n], r.res)
       /\ Len(r.coll) <= MaxDocs
       /\ flairs' = r.coll
       /\ UNCHANGED profiles

\* the whole program, one call at a time
Next ==
  \/ DoFlairDefine(FlairInputs({"AI"}))
  \/ DoProfileDefine(RefInputs)
  \/ DoFindName(ProfileKeys)
  \/ DoFindNames(ProfileKeys)
  \/ DoAssertName(ProfileKeys)
  \/ DoAssertNames(ProfileKeys)
  \/ DoFindID(ProfileKeys)
  \/ DoFindIDs(ProfileKeys)
  \/ DoDumpOne(ProfileKeys)
  \/ DoProfileDumpOne
  \/ Return

Spec == Init /\ [][Next]_vars

\* the TagStore alone, over more names and docIDs
TagKeys == TagNames \cup {FlairIds[1], FlairIds[2]}
NextTags ==
  \/ DoFlairDefine(FlairInputs(TagNames))
  \/ DoFindName(TagKeys)
  \/ DoFindNames(TagKeys)
  \/ DoAssertName(TagKeys)
  \/ DoAssertNames(TagKeys)
  \/ DoFindID(TagKeys)
  \/ DoFindIDs(TagKeys)
  \/ DoDumpOne(TagKeys)
  \/ DoRoundTrip(TagKeys, TagNames)
  \/ Return

SpecTags == Init /\ [][NextTags]_vars

\* the ProfileStore's define over the fields a caller may leave out
NextDefaults ==
  \/ DoProfileDefine(DefaultInputs)
  \/ Return

SpecDefaults == Init /\ [][NextDefaults]_vars

(***************************************************************************)
(* define calls run by two callers at once: the storage engine serializes  *)
(* the single reads and writes, not the calls, so a define is a read step  *)
(* (the count), for a profile the reads of the reference checks, and then  *)
(* the insert.                                                             *)
(***************************************************************************)
\* define calls one caller makes
MaxCalls == 2

RaceFlairInputs == {[name |-> n, description |-> "d1"] : n \in {"AI", "SE"}}
RaceProfileInputs == {[username |-> u] : u \in Usernames}
                     \cup {[username |-> "jdoe", flairs |-> <<"SE">>]}

At(p, pc) == procs[p].pc = pc
Goto(p, pc, res) == procs' = [procs EXCEPT ![p].pc = pc, ![p].res = res]
\* the name (or username) a caller's define is about
KeyOf(p) == IF procs[p].kind = "Flairs" THEN Arg(procs[p].args, "name")
            ELSE Arg(procs[p].args, "username")
\* another caller is past the count of a define of the same name, its insert
\* still to come
Racing(p) ==
  \E q \in Procs \ {p} :
    /\ procs[q].pc \in {"validate", "insert"}
    /\ procs[q].kind = procs[p].kind
    /\ KeyOf(q) = KeyOf(p)
\* overlap keeps the names whose defines were found racing
Raced(p) == IF Racing(p) THEN {<<procs[p].kind, KeyOf(p)>>} ELSE {}

RaceBegin(p) ==
  /\ At(p, "idle")
  /\ procs[p].calls < MaxCalls
  /\ \E kind \in {"Flairs", "Profiles"} :
       \E args \in IF kind = "Flairs" THEN RaceFlairInputs ELSE RaceProfileInputs :
         procs' = [procs EXCEPT ![p] = [pc |-> "check", kind |-> kind, args |-> args,
                                        res |-> Ok(NoRet), calls |-> @.calls + 1]]
  /\ UNCHANGED <<flairs, profiles, last, pre, overlap>>

\* Flairs.define up to its count
RaceFlairCheck(p) ==
  /\ At(p, "check") /\ procs[p].kind = "Flairs"
  /\ LET name == Arg(procs[p].args, "name")
          description == Arg(procs[p].args, "description")
     IN IF ~IsString(name) \/ ~IsString(description)
        THEN Goto(p, "done", Throw("Match.Error")) /\ UNCHANGED overlap
        ELSE IF FlairNameExists(flairs, name)
        THEN Goto(p, "done", Throw("previously defined")) /\ UNCHANGED overlap
        ELSE Goto(p, "insert", Ok(NoRet)) /\ overlap' = overlap \cup Raced(p)
  /\ UNCHANGED <<flairs, profiles, last, pre>>

\* Flairs.define's insert
RaceFlairInsert(p) ==
  /\ At(p, "insert") /\ procs[p].kind = "Flairs"
  /\ Len(flairs) < MaxDocs
  /\ LET ins == Insert(flairs, FlairIds, [name |-> procs[p].args.name,
                                          description |-> procs[p].args.description])
     IN flairs' = ins.coll /\ Goto(p, "done", Ok(ins.id))
  /\ UNCHANGED <<profiles, last, pre, overlap>>

\* Profiles.define up to its count
RaceProfileCheck(p) ==
  /\ At(p, "check") /\ procs[p].kind = "Profiles"
  /\ LET a == WithDefaults(procs[p].args)
     IN IF ~ProfileCheck(a)
        THEN Goto(p, "done", Throw("Match.Error")) /\ UNCHANGED overlap
        ELSE IF UsernameExists(profiles, a.username)
        THEN Goto(p, "done", Throw("previously defined")) /\ UNCHANGED overlap
        ELSE Goto(p, "validate", Ok(NoRet)) /\ overlap' = overlap \cup Raced(p)
  /\ UNCHANGED <<flairs, profiles, last, pre>>

\* Profiles.define's checks of interests and flairs
RaceProfileValidate(p) ==
  /\ At(p, "validate")
  /\ LET a == WithDefaults(procs[p].args)
     IN IF InterestsAssertNames(a.interests).err # "ok"
        THEN Goto(p, "done", Throw("interest not defined"))
        ELSE IF HasDuplicates(a.interests)
        THEN Goto(p, "done", Throw("interests contains duplicates"))
        ELSE IF FlairAssertNames(flairs, [names |-> a.flairs]).err # "ok"
        THEN Goto(p, "done", Throw("flair not defined"))
        ELSE IF HasDuplicates(a.flairs)
        THEN Goto(p, "done", Throw("flairs contains duplicates"))
        ELSE Goto(p, "insert", Ok(NoRet))
  /\ UNCHANGED <<flairs, profiles, last, pre, overlap>>

\* Profiles.define's insert
RaceProfileInsert(p) ==
  /\ At(p, "insert") /\ procs[p].kind = "Profiles"
  /\ Len(profiles) < MaxDocs
  /\ LET ins == Insert(profiles, ProfileIds, WithDefaults(procs[p].args))
     IN profiles' = ins.coll /\ Goto(p, "done", Ok(ins.id))
  /\ UNCHANGED <<flairs, last, pre, overlap>>

\* the caller has its value or its error and may call again
RaceReturn(p) ==
  /\ At(p, "done")
  /\ procs[p].calls < MaxCalls
  /\ procs' = [procs EXCEPT ![p] = Idle(@.calls)]
  /\ UNCHANGED <<flairs, profiles, last, pre, overlap>>

NextRace ==
  \E p \in Procs :
    \/ RaceBegin(p)
    \/ RaceFlairCheck(p)
    \/ RaceFlairInsert(p)
    \/ RaceProfileCheck(p)
    \/ RaceProfileValidate(p)
    \/ RaceProfileInsert(p)
    \/ RaceReturn(p)

SpecRace == Init /\ [][NextRace]_vars

(***************************************************************************)
(* Properties                                                              *)
(***************************************************************************)
Failed == last.res.err # "ok"
Succeeded == last.res.err = "ok"
Unchanged == flairs = pre.flairs /\ profiles = pre.profiles
NoRepeat(xs) == \A i, j \in 1..Len(xs) : xs[i] = xs[j] => i = j
NameStored(coll, name) == \E i \in 1..Len(coll) : coll[i].name = name
UsernameStored(coll, u) == \E i \in 1..Len(coll) : coll[i].username = u
\* the tags a key resolves to: by name or by docID
Resolving(coll, key) == {i \in 1..Len(coll) : coll[i].name = key \/ coll[i]._id = key}

TagNamesUnique == \A i, j \in 1..Len(flairs) : flairs[i].name = flairs[j].name => i = j
UsernamesUnique ==
  \A i, j \in 1..Len(profiles) : profiles[i].username = profiles[j].username => i = j

C2_NewNameSucceeds ==
  (last.op = "Flairs.define" /\ Has(last.args, "name")
     /\ ~NameStored(pre.flairs, last.args.name))
  => /\ Succeeded
     /\ FlairFindID(flairs, last.args.name) = Ok(last.res.ret)
     /\ FlairFindName(flairs, last.res.ret) = Ok(last.args.name)

\* C3: after any sequence of Profiles.define calls made one at a time no two
\* stored profiles share a username; a define whose username is already stored
\* throws and inserts nothing.
C3_UsernamesUnique ==
  /\ UsernamesUnique
  /\ (last.op = "Profiles.define" /\ Has(last.args, "username")
        /\ UsernameStored(pre.profiles, last.args.username))
     => Failed /\ Unchanged

C3_Witness ==
  /\ last.op = "Profiles.define"
  /\ last.res.err = "previously defined"
  /\ Len(profiles) = 2

\* C4: every stored profile's flairs hold only names of stored tags, none twice,
\* and its interests only names the InterestStore accepts, none twice.
C4_ReferencesAreNames ==
  \A p \in 1..Len(profiles) :
    /\ \A i \in 1..Len(profiles[p].flairs) : NameStored(flairs, profiles[p].flairs[i])
    /\ NoRepeat(profiles[p].flairs)
    /\ \A i \in 1..Len(profiles[p].interests) : profiles[p].interests[i] \in InterestNames
    /\ NoRepeat(profiles[p].interests)

\* the five checks of Profiles.define, each stated on the collections as the call
\* found them
UsernameTaken == UsernameStored(pre.profiles, last.args.username)
GivenInterests == IF Has(last.args, "interests") THEN last.args.interests ELSE <<>>
GivenFlairs == IF Has(last.args, "flairs") THEN last.args.flairs ELSE <<>>
BadInterest == \E i \in 1..Len(GivenInterests) : GivenInterests[i] \notin InterestNames
RepeatedInterest == ~NoRepeat(GivenInterests)
BadFlair == \E i \in 1..Len(GivenFlairs) : Resolving(pre.flairs, GivenFlairs[i]) = {}
RepeatedFlair == ~NoRepeat(GivenFlairs)
EarliestFailure ==
  IF UsernameTaken THEN "previously defined"
  ELSE IF BadInterest THEN "interest not defined"
  ELSE IF RepeatedInterest THEN "interests contains duplicates"
  ELSE IF BadFlair THEN "flair not defined"
  ELSE IF RepeatedFlair THEN "flairs contains duplicates"
  ELSE "ok"

Lookups == {"findName", "findNames", "assertName", "assertNames", "findID",
            "findIDs", "dumpOne", "Profiles.dumpOne"}

\* C6: a call that throws leaves both collections as it found them, and so does
\* every lookup and assert, thrown or not.
C6_FailuresChangeNothing ==
  (last.op # "none" /\ (Failed \/ last.op \in Lookups)) => Unchanged

C6_Witness ==
  /\ last.op = "Profiles.define"
  /\ last.res.err = "flairs contains duplicates"
  /\ Len(profiles) = 1 /\ Len(flairs) = 1

StringFields == {"firstName", "lastName", "bio", "picture", "title"}
\* the record a successful define stored: the newest one
Stored == profiles[Len(profiles)]

\* C7 as the specification has it: username too defaults to the empty string, so
\* a call that leaves it out passes the required-field check.
C7_UsernameDefaults ==
  last.op = "Profiles.define"
  => /\ last.res.err # "Match.Error"
     /\ Succeeded =>
          /\ \A f \in StringFields \cup {"username"} :
               Stored[f] = IF Has(last.args, f) THEN last.args[f] ELSE ""
          /\ \A f \in {"interests", "flairs"} :
               Stored[f] = IF Has(last.args, f) THEN last.args[f] ELSE <<>>

\* C7 (amended): firstName, lastName, bio, picture and title are stored as the
\* empty string and interests and flairs as empty sequences when left out;
\* username has no default: a call without it fails the required-field check and
\* stores nothing, a call with it passes that check.
C7_Defaults ==
  last.op = "Profiles.define"
  => /\ ~Has(last.args, "username") => (last.res.err = "Match.Error" /\ Unchanged)
     /\ Has(last.args, "username") => last.res.err # "Match.Error"
     /\ Succeeded =>
          /\ Stored.username = last.args.username
          /\ \A f \in StringFields :
               Stored[f] = IF Has(last.args, f) THEN last.args[f] ELSE ""
          /\ \A f \in {"interests", "flairs"} :
               Stored[f] = IF Has(last.args, f) THEN last.args[f] ELSE <<>>

C7_Witness ==
  /\ last.op = "Profiles.define"
  /\ Succeeded
  /\ DOMAIN last.args = {"username"}
  /\ Stored.bio = "" /\ Stored.title = "" /\ Stored.flairs = <<>>

C9_RoundTrip ==
  (last.op = "dumpOne/define"
     /\ (\E i \in 1..Len(pre.flairs) : pre.flairs[i]._id = last.args.docID)
     /\ ~NameStored(pre.flairs, last.args.name))
  => /\ Succeeded
     /\ Len(flairs) = Len(pre.flairs) + 1
     /\ \E i \in 1..Len(pre.flairs), j \in 1..Len(flairs) :
          /\ pre.flairs[i]._id = last.args.docID
          /\ flairs[j]._id = last.res.ret
          /\ flairs[j].name = last.args.name
          /\ flairs[j].description = pre.flairs[i].description

C9_Witness ==
  /\ last.op = "dumpOne/define"
  /\ Succeeded
  /\ Len(flairs) = 2
  /\ flairs[2].description = "d2"

\* C10: with two define calls of one name in flight, both counts can run before
\* either insert, and then both calls succeed and the collection holds two
\* records of that name (the witness); records that share a name or a username
\* arise in no other way.
C10_DuplicatesOnlyByRace ==
  /\ \A i, j \in 1..Len(flairs) :
       (i # j /\ flairs[i].name = flairs[j].name)
       => <<"Flairs", flairs[i].name>> \in overlap
  /\ \A i, j \in 1..Len(profiles) :
       (i # j /\ profiles[i].username = profiles[j].username)
       => <<"Profiles", profiles[i].username>> \in overlap

C10_Witness ==
  /\ \A p \in Procs : procs[p].pc = "done" /\ procs[p].res.err = "ok"
  /\ \E i, j \in 1..Len(flairs) : i # j /\ flairs[i].name = flairs[j].name
  /\ \E i, j \in 1..Len(profiles) : i # j /\ profiles[i].username = profiles[j].username

====
